---- MODULE Spec2Model ----
(***************************************************************************)
(* Model of DocDif: the two-phase block aligner of docx_diff.py            *)
(* (align_blocks: exact matching, then greedy fuzzy matching with          *)
(* RapidFuzz), its word differ (diff_words, on diff-match-patch) and the   *)
(* positional sentence aligner of pdf_text_diff.py (align_sentence_lists   *)
(* and token_diff, on difflib.SequenceMatcher).                            *)
(*                                                                         *)
(* Representation.  A Python list that the source indexes is a function on *)
(* 0..n-1 (0-based, as in the source); a list it only builds and walks is  *)
(* a sequence.  A str is a sequence of characters, a character a number:   *)
(* 0 is the blank, 1..6 are letters and digits, 7 and 8 are punctuation    *)
(* marks.  A dict is a function on its key set.  Block.section, Block.kind *)
(* and Sentence.page are carried along verbatim by the source and take     *)
(* part in no decision: a block or sentence is modelled by its text.       *)
(***************************************************************************)
EXTENDS Integers, Sequences, FiniteSets, TLC

VARIABLES
    \* docx_diff.py, main() and align_blocks()
    old_blocks, new_blocks, threshold, pc,
    matches, sim_scores, new_available, txt2idx_new, i,
    old_unmatched, new_choices, u, old_only, new_only,
    \* pdf_text_diff.py, main() and align_sentence_lists()
    old_sentences, new_sentences, ppc, diffs, merged, k,
    \* docx_diff.py, diff_words() as build_changes_json calls it
    old_text, new_text, wpc, dmp_diffs, dif

docx_vars == <<old_blocks, new_blocks, threshold, pc, matches, sim_scores,
               new_available, txt2idx_new, i, old_unmatched, new_choices, u,
               old_only, new_only>>

pdf_vars == <<old_sentences, new_sentences, ppc, diffs, merged, k>>

words_vars == <<old_text, new_text, wpc, dmp_diffs, dif>>

vars == <<docx_vars, pdf_vars, words_vars>>

----------------------------------------------------------------------------
(* Bounds of the model and the inputs drawn in Init.                       *)

MaxBlocks == 2

\* block texts: "a", "a b", "a c", "c d"
Texts == {<<1>>, <<1, 0, 2>>, <<1, 0, 3>>, <<3, 0, 4>>}

\* values of --threshold, inside and outside the documented range 0..100
Thresholds == {-1, 0, 34, 66, 67, 100, 101}

----------------------------------------------------------------------------
(* Python lists, dicts and sets.                                           *)

PyLen(l) == Cardinality(DOMAIN l)

Lists(S, n) == UNION {[0..(q - 1) -> S] : q \in 0..n}

Range(f) == {f[x] : x \in DOMAIN f}

\* d[q] = v
DictSet(d, q, v) == [x \in (DOMAIN d) \cup {q} |-> IF x = q THEN v ELSE d[x]]

\* d.pop(q, None)
DictPop(d, q) == [x \in (DOMAIN d) \ {q} |-> d[x]]

Min(S) == CHOOSE x \in S : \A y \in S : x <= y

\* list(s) for a set of small non-negative ints: CPython keeps the int k in
\* slot k of the hash table, so iteration is ascending
RECURSIVE SetToList(_)
SetToList(S) ==
    IF S = {} THEN <<>> ELSE <<Min(S)>> \o SetToList(S \ {Min(S)})

\* [x for x in l if x != q] on a sequence of distinct keys
RECURSIVE SeqRemove(_, _)
SeqRemove(l, q) ==
    IF l = <<>> THEN <<>>
    ELSE IF Head(l) = q THEN Tail(l)
    ELSE <<Head(l)>> \o SeqRemove(Tail(l), q)

\* sep.join(parts)
RECURSIVE JoinWith(_, _)
JoinWith(sep, parts) ==
    IF parts = <<>> THEN <<>>
    ELSE IF Len(parts) = 1 THEN Head(parts)
    ELSE Head(parts) \o <<sep>> \o JoinWith(sep, Tail(parts))

\* [p for p in s.split(sep) if p != '']
RECURSIVE SplitOn(_, _, _)
SplitOn(sep, s, piece) ==
    LET flush == IF piece # <<>> THEN <<piece>> ELSE <<>>
    IN IF s = <<>> THEN flush
       ELSE IF Head(s) = sep THEN flush \o SplitOn(sep, Tail(s), <<>>)
       ELSE SplitOn(sep, Tail(s), Append(piece, Head(s)))

\* s.split(): the words of a normalized text
Split(s) == SplitOn(0, s, <<>>)

\* s1 < s2 as Python compares two str
RECURSIVE StrLess(_, _)
StrLess(s1, s2) ==
    IF s2 = <<>> THEN FALSE
    ELSE IF s1 = <<>> THEN TRUE
    ELSE IF Head(s1) # Head(s2) THEN Head(s1) < Head(s2)
    ELSE StrLess(Tail(s1), Tail(s2))

\* sorted(tokens)
RECURSIVE Sorted(_)
Sorted(tokens) ==
    IF tokens = {} THEN <<>>
    ELSE LET least == CHOOSE w \in tokens : \A w2 \in tokens \ {w} : StrLess(w, w2)
         IN <<least>> \o Sorted(tokens \ {least})

----------------------------------------------------------------------------
(* rapidfuzz.fuzz.token_set_ratio.  A score is the exact fraction num/den  *)
(* of the float the library returns.                                       *)

Score(n, d) == [num |-> n, den |-> d]

ScoreGE(a, b) == a.num * b.den >= b.num * a.den

ScoreGT(a, b) == a.num * b.den > b.num * a.den

ScoreMax(a, b) == IF ScoreGE(a, b) THEN a ELSE b

\* int(score)
ScoreInt(a) == a.num \div a.den

\* " ".join(sorted(tokens))
Joined(tokens) == JoinWith(0, Sorted(tokens))

\* length of the longest common subsequence of two strings
RECURSIVE LCSLen(_, _)
LCSLen(s, t) ==
    IF s = <<>> \/ t = <<>> THEN 0
    ELSE IF Head(s) = Head(t) THEN 1 + LCSLen(Tail(s), Tail(t))
    ELSE LET x == LCSLen(Tail(s), t)
             y == LCSLen(s, Tail(t))
         IN IF x >= y THEN x ELSE y

\* Indel.distance: insertions and deletions only
indel_distance(s, t) == Len(s) + Len(t) - 2 * LCSLen(s, t)

\* norm_distance: 100 - 100 * dist / lensum, or 0 below the cutoff
norm_distance(dist, lensum, score_cutoff) ==
    LET score == IF lensum = 0 THEN Score(100, 1)
                 ELSE Score(100 * (lensum - dist), lensum)
    IN IF ScoreGE(score, score_cutoff) THEN score ELSE Score(0, 1)

token_set_ratio(s1, s2, score_cutoff) ==
    LET tokens_a == Range(Split(s1))
        tokens_b == Range(Split(s2))
        intersect == tokens_a \cap tokens_b
        diff_ab == tokens_a \ tokens_b
        diff_ba == tokens_b \ tokens_a
        ab_len == Len(Joined(diff_ab))
        ba_len == Len(Joined(diff_ba))
        sect_len == Len(Joined(intersect))
        sep == IF sect_len # 0 THEN 1 ELSE 0
        sect_ab_len == sect_len + sep + ab_len
        sect_ba_len == sect_len + sep + ba_len
        dist == indel_distance(Joined(diff_ab), Joined(diff_ba))
        result == norm_distance(dist, sect_ab_len + sect_ba_len, score_cutoff)
        sect_ab_ratio ==
            norm_distance(sep + ab_len, sect_len + sect_ab_len, score_cutoff)
        sect_ba_ratio ==
            norm_distance(sep + ba_len, sect_len + sect_ba_len, score_cutoff)
    IN IF ScoreGT(score_cutoff, Score(100, 1)) THEN Score(0, 1)
       ELSE IF tokens_a = {} \/ tokens_b = {} THEN Score(0, 1)
       ELSE IF intersect # {} /\ (diff_ab = {} \/ diff_ba = {})
            THEN Score(100, 1)
       ELSE IF sect_len = 0 THEN result
       ELSE ScoreMax(result, ScoreMax(sect_ab_ratio, sect_ba_ratio))

----------------------------------------------------------------------------
(* rapidfuzz.process.extractOne(query, choices, scorer, score_cutoff) over *)
(* the dict new_choices: the keys are visited in insertion order, a        *)
(* candidate replaces the result only when its score is at least the       *)
(* cutoff and strictly above the best so far, and a score of 100 ends the  *)
(* search.  The result is None or (candidate_text, score, j).              *)

None == [none |-> TRUE]

\* >= in place of >: the last of several equal scores wins
IsBetterOrEqual(score, score_cutoff, result) ==
    ScoreGE(score, score_cutoff) /\ (result = None \/ ScoreGE(score, result.score))

\* the test that makes a candidate the new best
IsBetter(score, score_cutoff, result) ==
    ScoreGE(score, score_cutoff) /\ (result = None \/ ScoreGT(score, result.score))

RECURSIVE extractLoop(_, _, _, _, _)
extractLoop(query, keys, new, score_cutoff, result) ==
    IF keys = <<>> THEN result
    ELSE LET j == Head(keys)
             score == token_set_ratio(query, new[j], score_cutoff)
         IN IF IsBetter(score, score_cutoff, result)
            THEN IF ScoreGE(score, Score(100, 1))
                 THEN [score |-> score, key |-> j]
                 ELSE extractLoop(query, Tail(keys), new, score,
                                  [score |-> score, key |-> j])
            ELSE extractLoop(query, Tail(keys), new, score_cutoff, result)

extractOne(query, keys, new, score_cutoff) ==
    extractLoop(query, keys, new, Score(score_cutoff, 1), None)

----------------------------------------------------------------------------
(* align_blocks.  A parameter named j or q is an index into new or old.    *)

\* lines 82-83: txt2idx_new.setdefault(b.text, []).append(j)
RECURSIVE BuildTxt2Idx(_, _, _)
BuildTxt2Idx(new, j, d) ==
    IF j >= PyLen(new) THEN d
    ELSE BuildTxt2Idx(new, j + 1,
            DictSet(d, new[j],
                    (IF new[j] \in DOMAIN d THEN d[new[j]] ELSE <<>>) \o <<j>>))

\* js.pop() in place of js.pop(0)
PopLast(js) == [j |-> js[Len(js)], rest |-> SubSeq(js, 1, Len(js) - 1)]

\* js[0] in place of js.pop(0): the bucket is never consumed
PeekFirst(js) == [j |-> Head(js), rest |-> js]

\* the candidate taken from the bucket: js.pop(0)
PopFirst(js) == [j |-> Head(js), rest |-> Tail(js)]

\* lines 85-93: one pass of the exact loop, for old index q
ExactIter(old, q, st) ==
    IF old[q] \in DOMAIN st.txt2idx_new /\ st.txt2idx_new[old[q]] # <<>>
    THEN LET p == PopFirst(st.txt2idx_new[old[q]])
         IN [matches |-> DictSet(st.matches, q, p.j),
             sim_scores |-> DictSet(st.sim_scores, q, 100),
             txt2idx_new |->
                 IF p.rest = <<>> THEN DictPop(st.txt2idx_new, old[q])
                 ELSE DictSet(st.txt2idx_new, old[q], p.rest),
             new_available |-> st.new_available \ {p.j}]
    ELSE st

\* lines 76-83: the state the exact loop starts from
ExactStart(new) ==
    [matches |-> <<>>, sim_scores |-> <<>>,
     txt2idx_new |-> BuildTxt2Idx(new, 0, <<>>),
     new_available |-> 0..(PyLen(new) - 1)]

\* lines 96-98: old_unmatched and the keys of new_choices
OldUnmatched(old, m) == SetToList({q \in DOMAIN old : q \notin DOMAIN m})

\* new_choices.pop(j, None) left out
FuzzyIterNoPop(old, new, q, sim_threshold, st) ==
    LET best == extractOne(old[q], st.new_choices, new, sim_threshold)
    IN IF best = None THEN st
       ELSE [matches |-> DictSet(st.matches, q, best.key),
             sim_scores |-> DictSet(st.sim_scores, q, ScoreInt(best.score)),
             new_choices |-> st.new_choices]

\* score_cutoff=100 - sim_threshold: the threshold taken for a distance
FuzzyIterDistance(old, new, q, sim_threshold, st) ==
    LET best == extractOne(old[q], st.new_choices, new, 100 - sim_threshold)
    IN IF best = None THEN st
       ELSE [matches |-> DictSet(st.matches, q, best.key),
             sim_scores |-> DictSet(st.sim_scores, q, ScoreInt(best.score)),
             new_choices |-> SeqRemove(st.new_choices, best.key)]

\* lines 104-111: one pass of the fuzzy loop, for old index q
FuzzyIter(old, new, q, sim_threshold, st) ==
    LET best == extractOne(old[q], st.new_choices, new, sim_threshold)
    IN IF best = None THEN st
       ELSE [matches |-> DictSet(st.matches, q, best.key),
             sim_scores |-> DictSet(st.sim_scores, q, ScoreInt(best.score)),
             new_choices |-> SeqRemove(st.new_choices, best.key)]

\* lines 114-116
OldOnly(old, m) == SetToList({q \in DOMAIN old : q \notin DOMAIN m})

NewOnly(new, m) == SetToList({j \in DOMAIN new : j \notin Range(m)})

\* the whole function, as the composition of its passes
RECURSIVE ExactLoop(_, _, _)
ExactLoop(old, q, st) ==
    IF q >= PyLen(old) THEN st ELSE ExactLoop(old, q + 1, ExactIter(old, q, st))

RECURSIVE FuzzyLoop(_, _, _, _, _)
FuzzyLoop(old, new, todo, sim_threshold, st) ==
    IF todo = <<>> \/ st.new_choices = <<>> THEN st
    ELSE FuzzyLoop(old, new, Tail(todo), sim_threshold,
                   FuzzyIter(old, new, Head(todo), sim_threshold, st))

align_blocks(old, new, sim_threshold) ==
    LET ex == ExactLoop(old, 0, ExactStart(new))
        todo == OldUnmatched(old, ex.matches)
        fz == FuzzyLoop(old, new, todo, sim_threshold,
                        [matches |-> ex.matches, sim_scores |-> ex.sim_scores,
                         new_choices |-> SetToList(ex.new_available)])
    IN [matches |-> fz.matches,
        old_only |-> OldOnly(old, fz.matches),
        new_only |-> NewOnly(new, fz.matches),
        sim_scores |-> fz.sim_scores,
        old_unmatched |-> todo]

----------------------------------------------------------------------------
(* difflib.SequenceMatcher(a=a, b=b, autojunk=False): no element is junk.  *)
(* A match is <<start in a, start in b, size>>; an opcode is a record      *)
(* [tag, i1, i2, j1, j2].                                                  *)

\* a Python list from a sequence, and back
FromSeq(l) == [x \in 0..(Len(l) - 1) |-> l[x + 1]]

ToSeq(l) == [x \in 1..PyLen(l) |-> l[x - 1]]

\* l.append(e)
PyAppend(l, e) == [x \in 0..PyLen(l) |-> IF x = PyLen(l) THEN e ELSE l[x]]

\* a[x : x + n] == b[y : y + n]
CommonAt(a, b, x, y, n) == \A d \in 0..(n - 1) : a[x + d] = b[y + d]

\* the longest block common to a[alo:ahi] and b[blo:bhi]; of several, the
\* one that starts earliest in a, and of those the one earliest in b
find_longest_match(a, b, alo, ahi, blo, bhi) ==
    LET cand == {m \in (alo..(ahi - 1)) \X (blo..(bhi - 1)) \X (1..(ahi - alo)) :
                    /\ m[1] + m[3] <= ahi
                    /\ m[2] + m[3] <= bhi
                    /\ CommonAt(a, b, m[1], m[2], m[3])}
    IN IF cand = {} THEN <<alo, blo, 0>>
       ELSE CHOOSE m \in cand :
                \A m2 \in cand :
                    \/ m[3] > m2[3]
                    \/ m[3] = m2[3] /\ m[1] < m2[1]
                    \/ m[3] = m2[3] /\ m[1] = m2[1] /\ m[2] <= m2[2]

\* get_matching_blocks, the search: the longest match, then the same to its
\* left and to its right; the blocks come out sorted
RECURSIVE MatchingBlocks(_, _, _, _, _, _)
MatchingBlocks(a, b, alo, ahi, blo, bhi) ==
    LET m == find_longest_match(a, b, alo, ahi, blo, bhi)
    IN IF m[3] = 0 THEN <<>>
       ELSE (IF alo < m[1] /\ blo < m[2]
             THEN MatchingBlocks(a, b, alo, m[1], blo, m[2]) ELSE <<>>)
            \o <<m>>
            \o (IF m[1] + m[3] < ahi /\ m[2] + m[3] < bhi
                THEN MatchingBlocks(a, b, m[1] + m[3], ahi, m[2] + m[3], bhi)
                ELSE <<>>)

\* get_matching_blocks, the pass that joins adjacent blocks
RECURSIVE Collapse(_, _)
Collapse(blocks, cur) ==
    IF blocks = <<>> THEN (IF cur[3] # 0 THEN <<cur>> ELSE <<>>)
    ELSE LET b2 == Head(blocks)
         IN IF cur[1] + cur[3] = b2[1] /\ cur[2] + cur[3] = b2[2]
            THEN Collapse(Tail(blocks), <<cur[1], cur[2], cur[3] + b2[3]>>)
            ELSE (IF cur[3] # 0 THEN <<cur>> ELSE <<>>)
                 \o Collapse(Tail(blocks), b2)

get_matching_blocks(a, b) ==
    Collapse(MatchingBlocks(a, b, 0, PyLen(a), 0, PyLen(b)), <<0, 0, 0>>)
        \o <<<<PyLen(a), PyLen(b), 0>>>>

Opcode(tag, i1, i2, j1, j2) ==
    [tag |-> tag, i1 |-> i1, i2 |-> i2, j1 |-> j1, j2 |-> j2]

RECURSIVE OpcodeLoop(_, _, _)
OpcodeLoop(blocks, ia, jb) ==
    IF blocks = <<>> THEN <<>>
    ELSE LET ai == Head(blocks)[1]
             bj == Head(blocks)[2]
             size == Head(blocks)[3]
             tag == IF ia < ai /\ jb < bj THEN "replace"
                    ELSE IF ia < ai THEN "delete"
                    ELSE IF jb < bj THEN "insert"
                    ELSE ""
         IN (IF tag # "" THEN <<Opcode(tag, ia, ai, jb, bj)>> ELSE <<>>)
            \o (IF size # 0
                THEN <<Opcode("equal", ai, ai + size, bj, bj + size)>>
                ELSE <<>>)
            \o OpcodeLoop(Tail(blocks), ai + size, bj + size)

get_opcodes(a, b) == OpcodeLoop(get_matching_blocks(a, b), 0, 0)

----------------------------------------------------------------------------
(* pdf_text_diff.py: token_diff and align_sentence_lists.  A record of     *)
(* diffs or merged names the sentence it was made from by its index: its   *)
(* old_text is old[r.old_idx] and its new_text is new[r.new_idx].          *)

\* " ".join(l[lo:hi])
JoinSlice(l, lo, hi) == JoinWith(0, [x \in 1..(hi - lo) |-> l[lo + x - 1]])

TokenOp(op, text) == [op |-> op, text |-> text]

\* lines 58-67, for one opcode
TokenOps(A, B, c) ==
    IF c.tag = "equal" THEN <<TokenOp("eq", JoinSlice(A, c.i1, c.i2))>>
    ELSE IF c.tag = "delete" THEN <<TokenOp("del", JoinSlice(A, c.i1, c.i2))>>
    ELSE IF c.tag = "insert" THEN <<TokenOp("ins", JoinSlice(B, c.j1, c.j2))>>
    ELSE (IF c.i1 < c.i2 THEN <<TokenOp("del", JoinSlice(A, c.i1, c.i2))>>
          ELSE <<>>)
         \o (IF c.j1 < c.j2 THEN <<TokenOp("ins", JoinSlice(B, c.j1, c.j2))>>
             ELSE <<>>)

RECURSIVE TokenDiffLoop(_, _, _)
TokenDiffLoop(A, B, ops) ==
    IF ops = <<>> THEN <<>>
    ELSE TokenOps(A, B, Head(ops)) \o TokenDiffLoop(A, B, Tail(ops))

token_diff(a, b) ==
    LET A == FromSeq(Split(a))
        B == FromSeq(Split(b))
    IN FromSeq(TokenDiffLoop(A, B, get_opcodes(A, B)))

\* the records of lines 77 and 80
RawDelete(x) == [type |-> "delete", old_idx |-> x]

RawInsert(y) == [type |-> "insert", new_idx |-> y]

\* lines 74-80, for one opcode
RawDiffs(c) ==
    IF c.tag = "equal" THEN <<>>
    ELSE (IF c.tag \in {"replace", "delete"}
          THEN [x \in 1..(c.i2 - c.i1) |-> RawDelete(c.i1 + x - 1)] ELSE <<>>)
         \o (IF c.tag \in {"replace", "insert"}
             THEN [y \in 1..(c.j2 - c.j1) |-> RawInsert(c.j1 + y - 1)] ELSE <<>>)

RECURSIVE RawDiffsLoop(_)
RawDiffsLoop(ops) ==
    IF ops = <<>> THEN <<>> ELSE RawDiffs(Head(ops)) \o RawDiffsLoop(Tail(ops))

\* line 86: the test that collapses a delete and the insert after it
MergesAt(ds, x) ==
    /\ ds[x].type = "delete"
    /\ x + 1 < PyLen(ds)
    /\ ds[x + 1].type = "insert"

\* lines 87-92, 96-97 and 99-100: the records appended to merged
Replaced(old, new, d, e) ==
    [type |-> "replace", old_idx |-> d.old_idx, new_idx |-> e.new_idx,
     parts |-> token_diff(old[d.old_idx], new[e.new_idx])]

Deleted(old, d) ==
    [type |-> "delete", old_idx |-> d.old_idx,
     parts |-> token_diff(old[d.old_idx], <<>>)]

Inserted(new, d) ==
    [type |-> "insert", new_idx |-> d.new_idx,
     parts |-> token_diff(<<>>, new[d.new_idx])]

----------------------------------------------------------------------------
(* docx_diff.py: tokenize_words and diff_words.  SEP is the separator      *)
(* U+F000.  A diff of diff-match-patch is a record [op, text] with op -1   *)
(* (delete), 0 (equal) or 1 (insert).                                      *)

SEP == 9

IsWordChar(c) == c \in 1..6

IsSpace(c) == c = 0

\* re.findall(r'\w+|[^\w\s]', s): runs of word characters, and every other
\* non-blank character on its own
RECURSIVE Tokenize(_, _)
Tokenize(s, word) ==
    LET flush == IF word # <<>> THEN <<word>> ELSE <<>>
    IN IF s = <<>> THEN flush
       ELSE IF IsWordChar(Head(s)) THEN Tokenize(Tail(s), Append(word, Head(s)))
       ELSE flush \o (IF IsSpace(Head(s)) THEN <<>> ELSE <<<<Head(s)>>>>)
                  \o Tokenize(Tail(s), <<>>)

tokenize_words(s) == Tokenize(s, <<>>)

Diff(op, text) == [op |-> op, text |-> text]

RECURSIVE diff_commonPrefix(_, _)
diff_commonPrefix(text1, text2) ==
    IF text1 = <<>> \/ text2 = <<>> \/ Head(text1) # Head(text2) THEN 0
    ELSE 1 + diff_commonPrefix(Tail(text1), Tail(text2))

RECURSIVE diff_commonSuffix(_, _)
diff_commonSuffix(text1, text2) ==
    IF text1 = <<>> \/ text2 = <<>> \/ text1[Len(text1)] # text2[Len(text2)] THEN 0
    ELSE 1 + diff_commonSuffix(SubSeq(text1, 1, Len(text1) - 1),
                               SubSeq(text2, 1, Len(text2) - 1))

\* longtext.find(shorttext): the first position (from 0), or -1
Find(longtext, shorttext) ==
    LET at == {x \in 0..(Len(longtext) - Len(shorttext)) :
                  SubSeq(longtext, x + 1, x + Len(shorttext)) = shorttext}
    IN IF at = {} THEN -1 ELSE Min(at)

\* diff_commonOverlap: the longest suffix of text1 that is a prefix of text2
diff_commonOverlap(text1, text2) ==
    LET ov == {n \in 0..Len(text1) :
                  /\ n <= Len(text2)
                  /\ SubSeq(text1, Len(text1) - n + 1, Len(text1)) = SubSeq(text2, 1, n)}
    IN CHOOSE n \in ov : \A m \in ov : m <= n

\* diff_main strips the common prefix and suffix first
Trimmed(text1, text2) ==
    LET np == diff_commonPrefix(text1, text2)
        r1 == SubSeq(text1, np + 1, Len(text1))
        r2 == SubSeq(text2, np + 1, Len(text2))
        ns == diff_commonSuffix(r1, r2)
    IN [prefix |-> SubSeq(text1, 1, np),
        mid1 |-> SubSeq(r1, 1, Len(r1) - ns),
        mid2 |-> SubSeq(r2, 1, Len(r2) - ns),
        suffix |-> SubSeq(r1, Len(r1) - ns + 1, Len(r1))]

\* diff_compute goes on to diff_halfMatch and diff_bisect when both texts
\* are non-empty, neither contains the other and the shorter has more than
\* one character; that part of the library is not modelled
NeedsBisect(text1, text2) ==
    LET longtext == IF Len(text1) > Len(text2) THEN text1 ELSE text2
        shorttext == IF Len(text1) > Len(text2) THEN text2 ELSE text1
    IN /\ text1 # <<>>
       /\ text2 # <<>>
       /\ Find(longtext, shorttext) = -1
       /\ Len(shorttext) > 1

\* diff_compute, up to the single-character case
diff_compute(text1, text2) ==
    LET longtext == IF Len(text1) > Len(text2) THEN text1 ELSE text2
        shorttext == IF Len(text1) > Len(text2) THEN text2 ELSE text1
        at == Find(longtext, shorttext)
        op == IF Len(text1) > Len(text2) THEN -1 ELSE 1
    IN IF text1 = <<>> THEN <<Diff(1, text2)>>
       ELSE IF text2 = <<>> THEN <<Diff(-1, text1)>>
       ELSE IF at # -1
            THEN <<Diff(op, SubSeq(longtext, 1, at)),
                   Diff(0, shorttext),
                   Diff(op, SubSeq(longtext, at + Len(shorttext) + 1, Len(longtext)))>>
       ELSE CASE Len(shorttext) = 1 -> <<Diff(-1, text1), Diff(1, text2)>>

diff_main(text1, text2) ==
    IF text1 = text2 THEN (IF text1 # <<>> THEN <<Diff(0, text1)>> ELSE <<>>)
    ELSE LET t == Trimmed(text1, text2)
         IN (IF t.prefix # <<>> THEN <<Diff(0, t.prefix)>> ELSE <<>>)
            \o diff_compute(t.mid1, t.mid2)
            \o (IF t.suffix # <<>> THEN <<Diff(0, t.suffix)>> ELSE <<>>)

\* diff_cleanupMerge (at the end of diff_main) and diff_cleanupSemantic
\* leave a diff list as it is when: every equality is its first or last
\* element (an equality is eliminated only with edits on both sides); no
\* single edit lies between two equalities (only those are shifted); a
\* deletion and the insertion after it share no overlap (only an overlap
\* is split off)
CleanupKeeps(ds) ==
    /\ \A x \in 1..Len(ds) :
          /\ ds[x].text # <<>>
          /\ ds[x].op = 0 => x \in {1, Len(ds)}
    /\ \A x \in 2..(Len(ds) - 1) : ~(ds[x - 1].op = 0 /\ ds[x + 1].op = 0)
    /\ \A x \in 1..(Len(ds) - 1) :
          (ds[x].op = -1 /\ ds[x + 1].op = 1) =>
              /\ diff_commonOverlap(ds[x].text, ds[x + 1].text) = 0
              /\ diff_commonOverlap(ds[x + 1].text, ds[x].text) = 0

\* the pairs of strings on which the library is modelled in full
DmpModelled(text1, text2) ==
    \/ text1 = text2
    \/ LET t == Trimmed(text1, text2)
       IN /\ ~NeedsBisect(t.mid1, t.mid2)
          /\ CleanupKeeps(diff_main(text1, text2))

diff_cleanupSemantic(ds) == ds

\* lines 136-142, for one diff
WordOps(d) ==
    LET parts == SplitOn(SEP, d.text, <<>>)
        text == JoinWith(0, parts)
    IN IF parts = <<>> THEN <<>>
       ELSE IF d.op = 0 THEN <<TokenOp("eq", text)>>
       ELSE IF d.op = -1 THEN <<TokenOp("del", text)>>
       ELSE <<TokenOp("ins", text)>>

RECURSIVE WordOpsLoop(_)
WordOpsLoop(ds) ==
    IF ds = <<>> THEN <<>> ELSE WordOps(Head(ds)) \o WordOpsLoop(Tail(ds))

\* lines 129-133: the diff of the two token strings
DmpDiffs(a, b) ==
    diff_cleanupSemantic(diff_main(JoinWith(SEP, tokenize_words(a)),
                                   JoinWith(SEP, tokenize_words(b))))

diff_words(a, b) == WordOpsLoop(DmpDiffs(a, b))

WordsIdle ==
    /\ old_text = <<>>
    /\ new_text = <<>>
    /\ wpc = "idle"
    /\ dmp_diffs = <<>>
    /\ dif = <<>>

----------------------------------------------------------------------------
(* docx_diff.py as a state machine: main() calls align_blocks, which runs  *)
(* its exact loop, then its fuzzy loop, then collects the tails.           *)

Init ==
    /\ old_blocks \in Lists(Texts, MaxBlocks)
    /\ new_blocks \in Lists(Texts, MaxBlocks)
    /\ threshold \in Thresholds
    /\ pc = "main"
    /\ matches = <<>>
    /\ sim_scores = <<>>
    /\ new_available = {}
    /\ txt2idx_new = <<>>
    /\ i = 0
    /\ old_unmatched = <<>>
    /\ new_choices = <<>>
    /\ u = 0
    /\ old_only = <<>>
    /\ new_only = <<>>
    /\ old_sentences = <<>>
    /\ new_sentences = <<>>
    /\ ppc = "idle"
    /\ diffs = <<>>
    /\ merged = <<>>
    /\ k = 0
    /\ WordsIdle

\* main, line 287: the call; align_blocks, lines 76-83
CallAlign ==
    /\ pc = "main"
    /\ pc' = "exact"
    /\ LET st == ExactStart(new_blocks)
       IN /\ matches' = st.matches
          /\ sim_scores' = st.sim_scores
          /\ txt2idx_new' = st.txt2idx_new
          /\ new_available' = st.new_available
    /\ i' = 0
    /\ UNCHANGED <<pdf_vars, words_vars>>
    /\ UNCHANGED <<old_blocks, new_blocks, threshold, old_unmatched,
                   new_choices, u, old_only, new_only>>

\* lines 84-93
ExactStep ==
    /\ pc = "exact"
    /\ i < PyLen(old_blocks)
    /\ LET st == ExactIter(old_blocks, i,
                           [matches |-> matches, sim_scores |-> sim_scores,
                            txt2idx_new |-> txt2idx_new,
                            new_available |-> new_available])
       IN /\ matches' = st.matches
          /\ sim_scores' = st.sim_scores
          /\ txt2idx_new' = st.txt2idx_new
          /\ new_available' = st.new_available
    /\ i' = i + 1
    /\ UNCHANGED <<pdf_vars, words_vars>>
    /\ UNCHANGED <<old_blocks, new_blocks, threshold, pc, old_unmatched,
                   new_choices, u, old_only, new_only>>

\* lines 96-98
FuzzyStart ==
    /\ pc = "exact"
    /\ i >= PyLen(old_blocks)
    /\ pc' = "fuzzy"
    /\ old_unmatched' = OldUnmatched(old_blocks, matches)
    /\ new_choices' = SetToList(new_available)
    /\ u' = 1
    /\ UNCHANGED <<pdf_vars, words_vars>>
    /\ UNCHANGED <<old_blocks, new_blocks, threshold, matches, sim_scores,
                   new_available, txt2idx_new, i, old_only, new_only>>

\* lines 100-111
FuzzyStep ==
    /\ pc = "fuzzy"
    /\ u <= Len(old_unmatched)
    /\ new_choices # <<>>
    /\ LET st == FuzzyIter(old_blocks, new_blocks, old_unmatched[u], threshold,
                           [matches |-> matches, sim_scores |-> sim_scores,
                            new_choices |-> new_choices])
       IN /\ matches' = st.matches
          /\ sim_scores' = st.sim_scores
          /\ new_choices' = st.new_choices
    /\ u' = u + 1
    /\ UNCHANGED <<pdf_vars, words_vars>>
    /\ UNCHANGED <<old_blocks, new_blocks, threshold, pc, new_available,
                   txt2idx_new, i, old_unmatched, old_only, new_only>>

\* lines 101 (break) and 113-117
Tails ==
    /\ pc = "fuzzy"
    /\ (u > Len(old_unmatched) \/ new_choices = <<>>)
    /\ pc' = "done"
    /\ old_only' = OldOnly(old_blocks, matches)
    /\ new_only' = NewOnly(new_blocks, matches)
    /\ UNCHANGED <<pdf_vars, words_vars>>
    /\ UNCHANGED <<old_blocks, new_blocks, threshold, matches, sim_scores,
                   new_available, txt2idx_new, i, old_unmatched, new_choices, u>>

Next == CallAlign \/ ExactStep \/ FuzzyStart \/ FuzzyStep \/ Tails

Spec == Init /\ [][Next]_vars

----------------------------------------------------------------------------
(* pdf_text_diff.py as a state machine: main() calls align_sentence_lists, *)
(* which builds diffs from the opcodes and then merges them, one pass of   *)
(* the while loop at a time.                                               *)

MaxSentences == 3

\* sentence texts: "a", "b", "a b", "c"
Sentences == {<<1>>, <<2>>, <<1, 0, 2>>, <<3>>}

PdfInit ==
    /\ old_sentences \in Lists(Sentences, MaxSentences)
    /\ new_sentences \in Lists(Sentences, MaxSentences)
    /\ ppc = "main"
    /\ diffs = <<>>
    /\ merged = <<>>
    /\ k = 0
    /\ old_blocks = <<>>
    /\ new_blocks = <<>>
    /\ threshold = 85
    /\ pc = "idle"
    /\ matches = <<>>
    /\ sim_scores = <<>>
    /\ new_available = {}
    /\ txt2idx_new = <<>>
    /\ i = 0
    /\ old_unmatched = <<>>
    /\ new_choices = <<>>
    /\ u = 0
    /\ old_only = <<>>
    /\ new_only = <<>>
    /\ WordsIdle

\* main, line 154: the call; align_sentence_lists, lines 71-83
BuildDiffs ==
    /\ ppc = "main"
    /\ ppc' = "merge"
    /\ diffs' = FromSeq(RawDiffsLoop(get_opcodes(old_sentences, new_sentences)))
    /\ merged' = <<>>
    /\ k' = 0
    /\ UNCHANGED <<old_sentences, new_sentences>>
    /\ UNCHANGED <<docx_vars, words_vars>>

\* lines 84-93: a delete followed by an insert becomes one replace
MergeReplace ==
    /\ ppc = "merge"
    /\ k < PyLen(diffs)
    /\ MergesAt(diffs, k)
    /\ merged' = PyAppend(merged,
                    Replaced(old_sentences, new_sentences, diffs[k], diffs[k + 1]))
    /\ k' = k + 2
    /\ UNCHANGED <<old_sentences, new_sentences, ppc, diffs>>
    /\ UNCHANGED <<docx_vars, words_vars>>

\* lines 94-101: any other record is copied
MergeCopy ==
    /\ ppc = "merge"
    /\ k < PyLen(diffs)
    /\ ~MergesAt(diffs, k)
    /\ merged' = PyAppend(merged,
                    IF diffs[k].type = "delete"
                    THEN Deleted(old_sentences, diffs[k])
                    ELSE Inserted(new_sentences, diffs[k]))
    /\ k' = k + 1
    /\ UNCHANGED <<old_sentences, new_sentences, ppc, diffs>>
    /\ UNCHANGED <<docx_vars, words_vars>>

\* line 102
ReturnMerged ==
    /\ ppc = "merge"
    /\ k >= PyLen(diffs)
    /\ ppc' = "done"
    /\ UNCHANGED <<old_sentences, new_sentences, diffs, merged, k>>
    /\ UNCHANGED <<docx_vars, words_vars>>

PdfNext == BuildDiffs \/ MergeReplace \/ MergeCopy \/ ReturnMerged

SpecPdf == PdfInit /\ [][PdfNext]_vars

----------------------------------------------------------------------------
(* diff_words as a state machine: build_changes_json calls it on the texts *)
(* of a matched pair of blocks.                                            *)

MaxChars == 3

\* the characters of a block text: blank, "a", "b", "%"
Alphabet == {0, 1, 2, 7}

\* what norm() returns: no blank at either end, no two blanks in a row
Normalized(s) ==
    /\ s # <<>> => (s[1] # 0 /\ s[Len(s)] # 0)
    /\ \A x \in 1..(Len(s) - 1) : ~(s[x] = 0 /\ s[x + 1] = 0)

Strings == {s \in UNION {[1..n -> Alphabet] : n \in 0..MaxChars} : Normalized(s)}

WordsInit ==
    /\ old_text \in Strings
    /\ new_text \in Strings
    /\ DmpModelled(JoinWith(SEP, tokenize_words(old_text)),
                   JoinWith(SEP, tokenize_words(new_text)))
    /\ wpc = "call"
    /\ dmp_diffs = <<>>
    /\ dif = <<>>
    /\ old_sentences = <<>>
    /\ new_sentences = <<>>
    /\ ppc = "idle"
    /\ diffs = <<>>
    /\ merged = <<>>
    /\ k = 0
    /\ old_blocks = <<>>
    /\ new_blocks = <<>>
    /\ threshold = 85
    /\ pc = "idle"
    /\ matches = <<>>
    /\ sim_scores = <<>>
    /\ new_available = {}
    /\ txt2idx_new = <<>>
    /\ i = 0
    /\ old_unmatched = <<>>
    /\ new_choices = <<>>
    /\ u = 0
    /\ old_only = <<>>
    /\ new_only = <<>>

\* lines 129-133
RunDmp ==
    /\ wpc = "call"
    /\ wpc' = "collect"
    /\ dmp_diffs' = DmpDiffs(old_text, new_text)
    /\ UNCHANGED <<old_text, new_text, dif>>
    /\ UNCHANGED <<docx_vars, pdf_vars>>

\* lines 135-143
CollectOps ==
    /\ wpc = "collect"
    /\ wpc' = "done"
    /\ dif' = WordOpsLoop(dmp_diffs)
    /\ UNCHANGED <<old_text, new_text, dmp_diffs>>
    /\ UNCHANGED <<docx_vars, pdf_vars>>

WordsNext == RunDmp \/ CollectOps

SpecWords == WordsInit /\ [][WordsNext]_vars

----------------------------------------------------------------------------
(* Properties of align_blocks.                                             *)

NoDup(l) == \A x, y \in DOMAIN l : l[x] = l[y] => x = y

\* the old indices matched by the fuzzy loop, and their pairs
FuzzyKeys(m, todo) == {q \in Range(todo) : q \in DOMAIN m}

FuzzyPairs(m, todo) == {<<q, m[q]>> : q \in FuzzyKeys(m, todo)}

FuzzyPairsAt(t) ==
    LET r == align_blocks(old_blocks, new_blocks, t)
    IN FuzzyPairs(r.matches, r.old_unmatched)

FuzzyPairsNow == FuzzyPairs(matches, old_unmatched)

\* the ascending list of the indices at which list l holds text t
Occ(l, t) == SetToList({q \in DOMAIN l : l[q] = t})

\* the score of old unit q against new unit j, no cutoff applied
Sim(q, j) == token_set_ratio(old_blocks[q], new_blocks[j], Score(-1, 1))

\* C1: for a threshold in 0..100 the result of align_blocks partitions both
\* index ranges: each old index is a key of matches or an element of
\* old_only, never both and never twice; each new index is the target of
\* exactly one match or an element of new_only, never both; no new index is
\* the target of two old indices.
C1_Partition ==
    (pc = "done" /\ threshold \in 0..100) =>
        /\ DOMAIN matches \subseteq DOMAIN old_blocks
        /\ Range(old_only) \subseteq DOMAIN old_blocks
        /\ Range(matches) \subseteq DOMAIN new_blocks
        /\ Range(new_only) \subseteq DOMAIN new_blocks
        /\ NoDup(old_only)
        /\ NoDup(new_only)
        /\ \A q \in DOMAIN old_blocks :
              (q \in DOMAIN matches) # (q \in Range(old_only))
        /\ \A j \in DOMAIN new_blocks :
              Cardinality({q \in DOMAIN matches : matches[q] = j})
                  = (IF j \in Range(new_only) THEN 0 ELSE 1)

\* a finished run with one fuzzy match and a leftover on each side
C1_Witness ==
    /\ pc = "done"
    /\ threshold \in 0..100
    /\ Cardinality(FuzzyPairsNow) = 1
    /\ old_only # <<>>
    /\ new_only # <<>>

\* C2: aligning a sequence with itself, at any threshold <= 100 and also when
\* a text occurs several times, matches every unit with similarity 100 and
\* leaves old_only and new_only empty.
C2_SelfAlign ==
    (pc = "done" /\ old_blocks = new_blocks /\ threshold <= 100) =>
        /\ DOMAIN matches = DOMAIN old_blocks
        /\ \A q \in DOMAIN old_blocks : sim_scores[q] = 100
        /\ old_only = <<>>
        /\ new_only = <<>>

C2_Witness ==
    /\ pc = "done"
    /\ old_blocks = new_blocks
    /\ threshold <= 100
    /\ PyLen(old_blocks) = 2
    /\ old_blocks[0] = old_blocks[1]

\* C3: for the same old and new sequences, the fuzzy loop makes no more
\* matches at a higher threshold than at a lower one.
C3_CountMonotone ==
    pc = "done" =>
        \A t2 \in Thresholds :
            t2 > threshold =>
                Cardinality(FuzzyPairsAt(t2)) <= Cardinality(FuzzyPairsNow)

\* a run with two fuzzy matches of which a higher threshold keeps one
C3_Witness ==
    /\ pc = "done"
    /\ Cardinality(FuzzyPairsNow) = 2
    /\ \E t2 \in Thresholds :
          t2 > threshold /\ Cardinality(FuzzyPairsAt(t2)) = 1

\* C4 as stated: every (old index, new index) pair the fuzzy loop matches at
\* a higher threshold is also matched at the lower one.
C4_PairsMonotone ==
    pc = "done" =>
        \A t2 \in Thresholds :
            t2 > threshold => FuzzyPairsAt(t2) \subseteq FuzzyPairsNow

\* C4 amended: every new index the fuzzy loop matches at a higher threshold
\* is also matched by the fuzzy loop at the lower one, possibly to another
\* old index.
C4_TargetsMonotone ==
    pc = "done" =>
        \A t2 \in Thresholds :
            t2 > threshold =>
                {p[2] : p \in FuzzyPairsAt(t2)} \subseteq {p[2] : p \in FuzzyPairsNow}

\* a run whose higher-threshold rerun pairs a new unit with another old unit
C4_Witness ==
    /\ pc = "done"
    /\ \E t2 \in Thresholds :
          /\ t2 > threshold
          /\ FuzzyPairsAt(t2) # {}
          /\ ~(FuzzyPairsAt(t2) \subseteq FuzzyPairsNow)

\* C6: a threshold outside 0..100 is rejected before alignment starts, so
\* align_blocks is never entered with it.
C6_Rejected == (threshold \notin 0..100) => pc = "main"

\* C8: the exact loop pairs equal texts first-in-first-out: of a text that
\* occurs a times in old and b times in new, the k-th old occurrence is
\* matched to the k-th new occurrence with similarity 100 for k <= min(a, b),
\* the other old occurrences are left to the fuzzy loop, and no new index
\* taken by the exact loop is among the fuzzy loop's candidates.
C8_ExactFifo ==
    pc \in {"fuzzy", "done"} =>
        /\ \A t \in Texts :
              LET os == Occ(old_blocks, t)
                  ns == Occ(new_blocks, t)
                  m == IF Len(os) <= Len(ns) THEN Len(os) ELSE Len(ns)
              IN /\ \A q \in 1..m :
                       /\ os[q] \notin Range(old_unmatched)
                       /\ os[q] \in DOMAIN matches
                       /\ matches[os[q]] = ns[q]
                       /\ sim_scores[os[q]] = 100
                 /\ \A q \in (m + 1)..Len(os) : os[q] \in Range(old_unmatched)
        /\ \A q \in (DOMAIN matches) \ Range(old_unmatched) :
              matches[q] \notin Range(new_choices)

\* a text twice in new and once in old, with another old unit left over
C8_Witness ==
    /\ pc = "fuzzy"
    /\ PyLen(new_blocks) = 2
    /\ new_blocks[0] = new_blocks[1]
    /\ PyLen(old_blocks) = 2
    /\ old_blocks[1] = new_blocks[0]
    /\ old_blocks[0] # new_blocks[0]
    /\ matches = (1 :> 0)
    /\ new_choices = <<1>>

\* the candidate the fuzzy loop must pick for old unit q: the highest score
\* among the candidates, the lowest new index among equal scores
BestFor(q, cands) ==
    CHOOSE j \in cands :
        \A j2 \in cands :
            \/ ScoreGT(Sim(q, j), Sim(q, j2))
            \/ (ScoreGE(Sim(q, j), Sim(q, j2)) /\ j <= j2)

\* C9: the fuzzy loop takes the old units the exact loop left, in ascending
\* old index; each is matched to the remaining new unit of highest score,
\* the lowest new index winning a tie, if and only if that score is >= the
\* threshold; a fuzzy match's similarity is in threshold..100; an old unit
\* that is not matched ends in old_only.
C9_FuzzyGreedy ==
    [][/\ (pc = "fuzzy" /\ pc' = "fuzzy") =>
            LET q == old_unmatched[u]
                best == BestFor(q, Range(new_choices))
            IN /\ (u > 1 => old_unmatched[u - 1] < q)
               /\ q \notin DOMAIN matches
               /\ IF ScoreGE(Sim(q, best), Score(threshold, 1))
                  THEN /\ matches' = DictSet(matches, q, best)
                       /\ new_choices' = SeqRemove(new_choices, best)
                       /\ sim_scores'[q] >= threshold
                       /\ sim_scores'[q] <= 100
                       /\ sim_scores'[q] = ScoreInt(Sim(q, best))
                  ELSE /\ matches' = matches
                       /\ new_choices' = new_choices
       /\ (pc = "fuzzy" /\ pc' = "done") =>
            \A q \in Range(old_unmatched) :
                q \notin DOMAIN matches => q \in Range(old_only')
      ]_vars

\* a finished run in which the fuzzy loop broke a tie between two candidates
\* for old unit 0 and matched old unit 1 to the one that was left
C9_Witness ==
    /\ pc = "done"
    /\ old_unmatched = <<0, 1>>
    /\ PyLen(new_blocks) = 2
    /\ Sim(0, 0) = Sim(0, 1)
    /\ matches = (0 :> 0) @@ (1 :> 1)
    /\ sim_scores[0] < 100
    /\ sim_scores[0] >= threshold
    /\ threshold > 0

----------------------------------------------------------------------------
(* Properties of the token differs and of align_sentence_lists.            *)

\* the tokens of an op's text
Words(text) == Split(text)

\* the tokens of the ops of the given kinds, in order
RECURSIVE Recon(_, _)
Recon(ops, kinds) ==
    IF ops = <<>> THEN <<>>
    ELSE (IF Head(ops).op \in kinds THEN Words(Head(ops).text) ELSE <<>>)
         \o Recon(Tail(ops), kinds)

\* C5: the ops of the token differ reconstruct both inputs: the tokens of
\* the eq and del ops, in order, are the tokens of old_text, those of the
\* eq and ins ops are the tokens of new_text; no token is split, merged,
\* dropped or duplicated.  Stated of diff_words.
C5_Reconstructs ==
    wpc = "done" =>
        /\ Recon(dif, {"eq", "del"}) = tokenize_words(old_text)
        /\ Recon(dif, {"eq", "ins"}) = tokenize_words(new_text)

\* the same of token_diff, for the parts of every record of merged
TokenDiffReconstructs ==
    ppc = "done" =>
        \A x \in DOMAIN merged :
            LET r == merged[x]
                a == IF r.type = "insert" THEN <<>> ELSE old_sentences[r.old_idx]
                b == IF r.type = "delete" THEN <<>> ELSE new_sentences[r.new_idx]
            IN /\ Recon(ToSeq(r.parts), {"eq", "del"}) = Split(a)
               /\ Recon(ToSeq(r.parts), {"eq", "ins"}) = Split(b)

\* what a record of merged says, without its parts
Shape(r) ==
    IF r.type = "replace" THEN <<"replace", r.old_idx, r.new_idx>>
    ELSE IF r.type = "delete" THEN <<"delete", r.old_idx>>
    ELSE <<"insert", r.new_idx>>

\* the records of merged made from the units of opcode c, in order
RecordsOf(c) ==
    LET From(r) ==
            \/ r.type # "insert" /\ r.old_idx \in c.i1..(c.i2 - 1)
            \/ r.type # "delete" /\ r.new_idx \in c.j1..(c.j2 - 1)
        rs == SelectSeq(ToSeq(merged), From)
    IN [x \in 1..Len(rs) |-> Shape(rs[x])]

\* the records C7 gives a Replace opcode over m old and n new units
ClaimedOf(c) ==
    LET m == c.i2 - c.i1
        n == c.j2 - c.j1
        p == IF m <= n THEN m ELSE n
    IN [x \in 1..p |-> <<"replace", c.i1 + x - 1, c.j1 + x - 1>>]
       \o [x \in 1..(m - p) |-> <<"delete", c.i1 + p + x - 1>>]
       \o [x \in 1..(n - p) |-> <<"insert", c.j1 + p + x - 1>>]

Opcodes == get_opcodes(old_sentences, new_sentences)

\* C7: a Replace opcode over m old and n new units yields min(m, n) replace
\* records, the x-th pairing the x-th old unit of the range with the x-th
\* new unit, followed by |m - n| delete or insert records for the excess
\* units of the longer side.
C7_ReplacePairs ==
    ppc = "done" =>
        \A x \in 1..Len(Opcodes) :
            Opcodes[x].tag = "replace" => RecordsOf(Opcodes[x]) = ClaimedOf(Opcodes[x])

\* C10: a replace record pairs an old and a new unit of one Replace opcode;
\* a deleted and an inserted unit with unchanged units between them are
\* reported as a delete record and an insert record.  For old = [A, B, C]
\* and new = [A, C, D] the output is: delete B, insert D.
C10_NoMergeAcrossEqual ==
    ppc = "done" =>
        /\ \A x \in DOMAIN merged :
              merged[x].type = "replace" =>
                  \E y \in 1..Len(Opcodes) :
                      /\ Opcodes[y].tag = "replace"
                      /\ merged[x].old_idx \in Opcodes[y].i1..(Opcodes[y].i2 - 1)
                      /\ merged[x].new_idx \in Opcodes[y].j1..(Opcodes[y].j2 - 1)
        /\ (/\ PyLen(old_sentences) = 3
            /\ Cardinality(Range(old_sentences)) = 3
            /\ PyLen(new_sentences) = 3
            /\ new_sentences[0] = old_sentences[0]
            /\ new_sentences[1] = old_sentences[2]
            /\ new_sentences[2] \notin Range(old_sentences))
           => [x \in 1..PyLen(merged) |-> Shape(merged[x - 1])]
                  = <<<<"delete", 1>>, <<"insert", 2>>>>

====
